---- MODULE Spec2Model ----
(***************************************************************************)
(* The PCM-to-WAV encoder writeWav of utils/fileHelpers, as a state        *)
(* machine: one step per header write, one per interleaved sample, one per *)
(* frame.  Float samples are fixed-point rationals num / Den, which is     *)
(* exact for the dyadic values used here (float32 holds them exactly and   *)
(* the products with 32767 and 32768 are exact in a double).               *)
(***************************************************************************)
EXTENDS Integers, Sequences, FiniteSets, TLC

----------------------------------------------------------------------------
(* Bounds of the model *)

MaxFrames == 46
MaxChannels == 2
FracBits == 2

Den == 2 ^ FracBits
One == Den
Half == Den \div 2
Quarter == Den \div 4

(* The WAV encoder is called twice, one call after the other. *)
Calls == {1, 2}

SampleRates == {8000, 44100}

SampleVals ==
  << -(2 * One), -(One + Quarter), -One, -(Half + Quarter), -Half, -Quarter, 0,
     Quarter, Half, Half + Quarter, One, One + Quarter, 2 * One >>

----------------------------------------------------------------------------
(* Input buffers (AudioBuffer): sampleRate, numberOfChannels, length and    *)
(* one Float32Array of `length` samples per channel.                        *)

RampSample(phase, ch, p) ==
  SampleVals[((p + 5 * ch + phase) % Len(SampleVals)) + 1]

AudioBuffer(rate, nch, frames, data) ==
  [sampleRate |-> rate, numberOfChannels |-> nch, length |-> frames,
   channelData |-> data]

RampBuffer(rate, nch, frames, phase) ==
  AudioBuffer(rate, nch, frames,
    [ch \in 1..nch |-> [p \in 1..frames |-> RampSample(phase, ch - 1, p - 1)]])

ConstBuffer(rate, nch, frames, k) ==
  AudioBuffer(rate, nch, frames,
    [ch \in 1..nch |-> [p \in 1..frames |-> SampleVals[k]]])

(* channel 0 = [0.0, 0.5], channel 1 = [-0.5, 0.0] *)
ExampleBuffer ==
  AudioBuffer(44100, 2, 2, << <<0, Half>>, <<-Half, 0>> >>)

Inputs ==
  {RampBuffer(r, n, f, ph) :
      r \in SampleRates, n \in 0..MaxChannels, f \in 0..MaxFrames,
      ph \in 0..(Len(SampleVals) - 1)}
  \cup
  {ConstBuffer(r, n, f, k) :
      r \in SampleRates, n \in 0..MaxChannels, f \in 0..MaxFrames,
      k \in 1..Len(SampleVals)}
  \cup {ExampleBuffer}

----------------------------------------------------------------------------
(* Number conversions of the DataView writes and of `| 0` *)

ToUint16(n) == n % 65536

(* `x | 0` of the rational x = a / b, b > 0: truncation toward zero; the    *)
(* wrap to 32 bits is the identity on every magnitude below 2^31             *)
ToInt32(a, b) == IF a >= 0 THEN a \div b ELSE -((-a) \div b)

Max(a, b) == IF a >= b THEN a ELSE b
Min(a, b) == IF a <= b THEN a ELSE b

(* DataView.setUint16(at, data, true) / setInt16(at, data, true) *)
ViewSet16(v, at, data) ==
  LET u == ToUint16(data) IN
  [k \in 1..Len(v) |->
      IF k = at + 1 THEN u % 256
      ELSE IF k = at + 2 THEN u \div 256
      ELSE v[k]]

ViewSet32_BigEndian(v, at, data) ==
  [k \in 1..Len(v) |->
      IF k = at + 4 THEN data % 256
      ELSE IF k = at + 3 THEN (data \div 256) % 256
      ELSE IF k = at + 2 THEN (data \div 65536) % 256
      ELSE IF k = at + 1 THEN (data \div 16777216) % 256
      ELSE v[k]]

(* DataView.setUint32(at, data, true): the four low bytes of data in       *)
(* two's complement, least significant first                                *)
ViewSet32(v, at, data) ==
  [k \in 1..Len(v) |->
      IF k = at + 1 THEN data % 256
      ELSE IF k = at + 2 THEN (data \div 256) % 256
      ELSE IF k = at + 3 THEN (data \div 65536) % 256
      ELSE IF k = at + 4 THEN (data \div 16777216) % 256
      ELSE v[k]]

(* a DataView write of `size` bytes at `at` throws a RangeError when it     *)
(* does not fit the buffer                                                  *)
Fits(v, at, size) == at >= 0 /\ at + size <= Len(v)

----------------------------------------------------------------------------
(* writeWav *)

HeaderLen == 44

WavLength_OneBytePerSample(b) == b.length * b.numberOfChannels + HeaderLen

WavLength(b) == b.length * b.numberOfChannels * 2 + HeaderLen

HeaderStmts_ChunkSizeWhole(b, len, p) ==
  << [fn |-> "setUint32", data |-> 1179011410],
     [fn |-> "setUint32", data |-> len],
     [fn |-> "setUint32", data |-> 1163280727],
     [fn |-> "setUint32", data |-> 544501094],
     [fn |-> "setUint32", data |-> 16],
     [fn |-> "setUint16", data |-> 1],
     [fn |-> "setUint16", data |-> b.numberOfChannels],
     [fn |-> "setUint32", data |-> b.sampleRate],
     [fn |-> "setUint32", data |-> b.sampleRate * 2 * b.numberOfChannels],
     [fn |-> "setUint16", data |-> b.numberOfChannels * 2],
     [fn |-> "setUint16", data |-> 16],
     [fn |-> "setUint32", data |-> 1635017060],
     [fn |-> "setUint32", data |-> len - p - 4] >>

HeaderStmts_CursorNotSkipped(b, len, p) ==
  << [fn |-> "setUint32", data |-> 1179011410],
     [fn |-> "setUint32", data |-> len - 8],
     [fn |-> "setUint32", data |-> 1163280727],
     [fn |-> "setUint32", data |-> 544501094],
     [fn |-> "setUint32", data |-> 16],
     [fn |-> "setUint16", data |-> 1],
     [fn |-> "setUint16", data |-> b.numberOfChannels],
     [fn |-> "setUint32", data |-> b.sampleRate],
     [fn |-> "setUint32", data |-> b.sampleRate * 2 * b.numberOfChannels],
     [fn |-> "setUint16", data |-> b.numberOfChannels * 2],
     [fn |-> "setUint16", data |-> 16],
     [fn |-> "setUint32", data |-> 1635017060],
     [fn |-> "setUint32", data |-> len - p] >>

(* the header statements in program order: the helper called and its        *)
(* argument, which for the last one depends on the cursor                   *)
HeaderStmts(b, len, p) ==
  << [fn |-> "setUint32", data |-> 1179011410],
     [fn |-> "setUint32", data |-> len - 8],
     [fn |-> "setUint32", data |-> 1163280727],
     [fn |-> "setUint32", data |-> 544501094],
     [fn |-> "setUint32", data |-> 16],
     [fn |-> "setUint16", data |-> 1],
     [fn |-> "setUint16", data |-> b.numberOfChannels],
     [fn |-> "setUint32", data |-> b.sampleRate],
     [fn |-> "setUint32", data |-> b.sampleRate * 2 * b.numberOfChannels],
     [fn |-> "setUint16", data |-> b.numberOfChannels * 2],
     [fn |-> "setUint16", data |-> 16],
     [fn |-> "setUint32", data |-> 1635017060],
     [fn |-> "setUint32", data |-> len - p - 4] >>

NumHeaderStmts == 13

Clamp_None(s) == s

(* Math.max(-1, Math.min(1, s)) *)
Clamp(s) == Max(-One, Min(One, s))

ScaleTest_Sign(s) == s < 0

(* 0.5 + sample < 0 *)
ScaleTest(s) == Half + s < 0

Scale_OffsetBinary(s) ==
  32768 + (IF ScaleTest(s) THEN ToInt32(s * 32768, Den) ELSE ToInt32(s * 32767, Den))

Scale_OneConstant(s) ==
  IF ScaleTest(s) THEN ToInt32(s * 32767, Den) ELSE ToInt32(s * 32767, Den)

(* (0.5 + sample < 0 ? sample * 32768 : sample * 32767) | 0 *)
Scale(s) ==
  IF ScaleTest(s) THEN ToInt32(s * 32768, Den) ELSE ToInt32(s * 32767, Den)

(* channels[i][pos]; an index outside the array reads undefined, which the  *)
(* arithmetic turns into NaN and `| 0` into 0                               *)
InArray(chs, i, p) == i + 1 \in 1..Len(chs) /\ p + 1 \in 1..Len(chs[i + 1])

ConvertSample(chs, i, p) ==
  IF InArray(chs, i, p) THEN Scale(Clamp(chs[i + 1][p + 1])) ELSE 0

WhileCond_Inclusive(p, b) == p <= b.length

(* while (pos < buffer.length) *)
WhileCond(p, b) == p < b.length

(* i < numOfChan *)
ForCond(k, n) == k < n

VARIABLES
  buffer,    \* the argument of each call
  pc,        \* where each call stands
  numOfChan, length, view, channels, i, sample, offset, pos,   \* locals
  hstep,     \* the header statement to run next
  written,   \* the byte offsets of `view` that a DataView write has set
  result     \* the Blob returned

wavVars == <<buffer, pc, numOfChan, length, view, channels, i, sample, offset,
             pos, hstep, written, result>>

VARIABLES
  env,               \* the host: whether window has an AudioContext
  activeTab, fileData, transcription, correction, rewrite,   \* App state
  recordingStatus, recordedBlob, statusMessage,
  runs,              \* the handleTranscribe invocations that have not finished
  corrPending,       \* correctText requests that have not settled
  rewritePending,    \* rewriteText requests that have not settled
  sinceClear,        \* handleTranscribe cleared the auxiliary result and its
                     \* handler was not invoked since
  starts,            \* the startRecording invocations
  streams, recorders, timers,   \* the MediaStream, MediaRecorder and interval
                                \* timer each startRecording created
  refs               \* streamRef, mediaRecorderRef, timerRef, recordingMimeTypeRef

uiVars == <<activeTab, fileData, transcription, correction, rewrite,
            recordingStatus, recordedBlob, statusMessage>>

reqVars == <<runs, corrPending, rewritePending, sinceClear>>

recVars == <<starts, streams, recorders, timers, refs>>

appVars == <<env, uiVars, reqVars, recVars>>

vars == <<wavVars, appVars>>

----------------------------------------------------------------------------
(* The App component: its state and the values it holds *)

MaxRuns == 2
MaxPending == 1
MaxStarts == 2

Runs == 1..MaxRuns
Starts == 1..MaxStarts

Null == "null"

(* a Blob or File: where it comes from, its MIME type, and its bytes when   *)
(* they are known                                                           *)
MediaBlob(src, type) == [src |-> src, type |-> type, bytes |-> <<>>]

NullBlob == MediaBlob("null", "")

(* the files a user may pick: a video, an audio file, a file whose type the *)
(* browser does not know                                                    *)
Files ==
  {MediaBlob("file", "video/mp4"), MediaBlob("file", "audio/mpeg"), MediaBlob("file", "")}

(* file.type.startsWith('video') *)
StartsWithVideo(type) ==
  type \in {"video/mp4", "video/webm", "video/webm;codecs=vp9", "video/quicktime"}

(* getMimeType(filename), by the extension of filename *)
getMimeType(ext) ==
  CASE ext = "mp3" -> "audio/mpeg"
    [] ext = "wav" -> "audio/wav"
    [] ext = "ogg" -> "audio/ogg"
    [] ext = "mp4" -> "video/mp4"
    [] ext = "webm" -> "video/webm"
    [] ext = "mov" -> "video/quicktime"
    [] OTHER -> "application/octet-stream"

(* the audio buffers decodeAudioData may resolve with *)
DecodedBuffers ==
  {RampBuffer(8000, 1, HeaderLen + 1, 0), ConstBuffer(44100, MaxChannels, 0, 7)}

(* what the buffer variable holds while no call of writeWav is under way *)
NoBuffer == AudioBuffer(8000, 0, 0, <<>>)

ClearedTranscription == [text |-> "", isProcessing |-> FALSE, error |-> Null]

ClearedTextProcess == [text |-> Null, isProcessing |-> FALSE, error |-> Null]

NoFile == [file |-> NullBlob, type |-> Null]

(* the promise extractAudioFromVideo returned *)
NoPromise == [state |-> "none", value |-> NullBlob, error |-> ""]

(* the message of the Error thrown at line 116 (the source has it in        *)
(* Chinese: the audio track cannot be extracted from the video, the file    *)
(* may be damaged or have no audio track)                                   *)
ExtractErrorMessage == "cannot extract the audio track from the video"

IdleRun ==
  [pc |-> "idle", blobToProcess |-> NullBlob, isVideo |-> FALSE,
   finalBlob |-> NullBlob, mimeType |-> "", extract |-> NoPromise,
   context |-> "none", decoded |-> "none", encoded |-> FALSE]

IdleStart == [pc |-> "idle", source |-> Null, transcription |-> ClearedTranscription]

NoRefs == [stream |-> 0, mediaRecorder |-> 0, timer |-> 0, recordingMimeType |-> ""]

(* the App as mounted, lines 154-193 *)
AppStart ==
  /\ activeTab = "FILE"
  /\ fileData = NoFile
  /\ transcription = ClearedTranscription
  /\ correction = ClearedTextProcess
  /\ rewrite = ClearedTextProcess
  /\ recordingStatus = "idle"
  /\ recordedBlob = NullBlob
  /\ statusMessage = ""
  /\ runs = [r \in Runs |-> IdleRun]
  /\ corrPending = 0
  /\ rewritePending = 0
  /\ sinceClear = [correction |-> FALSE, rewrite |-> FALSE]
  /\ starts = [s \in Starts |-> IdleStart]
  /\ streams = [s \in Starts |-> "none"]
  /\ recorders = [s \in Starts |-> "none"]
  /\ timers = [s \in Starts |-> "none"]
  /\ refs = NoRefs

NoBlob == [bytes |-> <<>>, type |-> ""]

(* b with every sample above 1.0 replaced by 1.0 and every sample below     *)
(* -1.0 by -1.0                                                             *)
Saturated(b) ==
  [b EXCEPT !.channelData =
      [ch \in 1..Len(b.channelData) |->
          [p \in 1..Len(b.channelData[ch]) |->
              LET s == b.channelData[ch][p] IN
              IF s > One THEN One ELSE IF s < -One THEN -One ELSE s]]]

Init ==
  /\ \E b1 \in Inputs : \E b2 \in {b1, Saturated(b1)} :
        buffer = [c \in Calls |-> IF c = 1 THEN b1 ELSE b2]
  /\ pc = [c \in Calls |-> "idle"]
  /\ numOfChan = [c \in Calls |-> 0]
  /\ length = [c \in Calls |-> 0]
  /\ view = [c \in Calls |-> <<>>]
  /\ channels = [c \in Calls |-> <<>>]
  /\ i = [c \in Calls |-> 0]
  /\ sample = [c \in Calls |-> 0]
  /\ offset = [c \in Calls |-> 0]
  /\ pos = [c \in Calls |-> 0]
  /\ hstep = [c \in Calls |-> 1]
  /\ written = [c \in Calls |-> {}]
  /\ result = [c \in Calls |-> NoBlob]
  /\ env = [audioContext |-> TRUE]
  /\ AppStart

(* writeWav runs to completion: a call starts when no other call is inside  *)
(* the function and the calls before it have returned                       *)
MayStart(c) ==
  \A d \in Calls : d < c => pc[d] \in {"returned", "threw"}

Begin_KeepsPos(c) ==
  /\ pc[c] = "idle"
  /\ numOfChan' = [numOfChan EXCEPT ![c] = buffer[c].numberOfChannels]
  /\ length' = [length EXCEPT ![c] = WavLength(buffer[c])]
  /\ view' = [view EXCEPT ![c] = [k \in 1..WavLength(buffer[c]) |-> 0]]
  /\ channels' = [channels EXCEPT ![c] = <<>>]
  /\ offset' = [offset EXCEPT ![c] = 0]
  /\ pos' = [pos EXCEPT ![c] = pos[1]]
  /\ hstep' = [hstep EXCEPT ![c] = 1]
  /\ pc' = [pc EXCEPT ![c] = "header"]
  /\ UNCHANGED <<buffer, i, sample, written, result>>
  /\ UNCHANGED appVars

(* lines 41-49: the locals and the zero-filled ArrayBuffer *)
Begin(c) ==
  /\ pc[c] = "idle"
  /\ numOfChan' = [numOfChan EXCEPT ![c] = buffer[c].numberOfChannels]
  /\ length' = [length EXCEPT ![c] = WavLength(buffer[c])]
  /\ view' = [view EXCEPT ![c] = [k \in 1..WavLength(buffer[c]) |-> 0]]
  /\ channels' = [channels EXCEPT ![c] = <<>>]
  /\ offset' = [offset EXCEPT ![c] = 0]
  /\ pos' = [pos EXCEPT ![c] = 0]
  /\ hstep' = [hstep EXCEPT ![c] = 1]
  /\ pc' = [pc EXCEPT ![c] = "header"]
  /\ UNCHANGED <<buffer, i, sample, written, result>>
  /\ UNCHANGED appVars

(* a call from a single-threaded host *)
Call(c) == MayStart(c) /\ Begin(c)

(* a call from a host that runs calls in parallel *)
ParallelCall(c) == Begin(c)

AfterHeaderStmt(c) ==
  /\ hstep' = [hstep EXCEPT ![c] = hstep[c] + 1]
  /\ pc' = [pc EXCEPT ![c] = IF hstep[c] = NumHeaderStmts THEN "channels" ELSE "header"]

(* lines 89-92, called from lines 52-66 *)
setUint32(c) ==
  /\ pc[c] = "header"
  /\ LET st == HeaderStmts(buffer[c], length[c], pos[c])[hstep[c]] IN
     /\ st.fn = "setUint32"
     /\ IF Fits(view[c], pos[c], 4)
        THEN /\ view' = [view EXCEPT ![c] = ViewSet32(view[c], pos[c], st.data)]
             /\ written' = [written EXCEPT ![c] = written[c] \cup (pos[c]..(pos[c] + 3))]
             /\ pos' = [pos EXCEPT ![c] = pos[c] + 4]
             /\ AfterHeaderStmt(c)
        ELSE /\ pc' = [pc EXCEPT ![c] = "threw"]
             /\ UNCHANGED <<view, written, pos, hstep>>
  /\ UNCHANGED <<buffer, numOfChan, length, channels, i, sample, offset, result>>
  /\ UNCHANGED appVars

(* lines 84-87, called from lines 58-63 *)
setUint16(c) ==
  /\ pc[c] = "header"
  /\ LET st == HeaderStmts(buffer[c], length[c], pos[c])[hstep[c]] IN
     /\ st.fn = "setUint16"
     /\ IF Fits(view[c], pos[c], 2)
        THEN /\ view' = [view EXCEPT ![c] = ViewSet16(view[c], pos[c], st.data)]
             /\ written' = [written EXCEPT ![c] = written[c] \cup (pos[c]..(pos[c] + 1))]
             /\ pos' = [pos EXCEPT ![c] = pos[c] + 2]
             /\ AfterHeaderStmt(c)
        ELSE /\ pc' = [pc EXCEPT ![c] = "threw"]
             /\ UNCHANGED <<view, written, pos, hstep>>
  /\ UNCHANGED <<buffer, numOfChan, length, channels, i, sample, offset, result>>
  /\ UNCHANGED appVars

(* lines 69-70: channels.push(buffer.getChannelData(i)) for every channel *)
GetChannels(c) ==
  /\ pc[c] = "channels"
  /\ channels' = [channels EXCEPT ![c] = buffer[c].channelData]
  /\ i' = [i EXCEPT ![c] = buffer[c].numberOfChannels]
  /\ pc' = [pc EXCEPT ![c] = "while"]
  /\ UNCHANGED <<buffer, numOfChan, length, view, sample, offset, pos, hstep,
                 written, result>>
  /\ UNCHANGED appVars

(* line 72 true, line 73 i = 0 *)
EnterFrame(c) ==
  /\ pc[c] = "while"
  /\ WhileCond(pos[c], buffer[c])
  /\ i' = [i EXCEPT ![c] = 0]
  /\ pc' = [pc EXCEPT ![c] = "for"]
  /\ UNCHANGED <<buffer, numOfChan, length, view, channels, sample, offset, pos,
                 hstep, written, result>>
  /\ UNCHANGED appVars

(* lines 73-78: one iteration of the channel loop *)
InterleaveSample(c) ==
  /\ pc[c] = "for"
  /\ ForCond(i[c], numOfChan[c])
  /\ LET v == ConvertSample(channels[c], i[c], pos[c]) IN
     /\ sample' = [sample EXCEPT ![c] = v]
     /\ IF Fits(view[c], HeaderLen + offset[c], 2)
        THEN /\ view' = [view EXCEPT ![c] = ViewSet16(view[c], HeaderLen + offset[c], v)]
             /\ written' = [written EXCEPT ![c] =
                   written[c] \cup ((HeaderLen + offset[c])..(HeaderLen + offset[c] + 1))]
             /\ offset' = [offset EXCEPT ![c] = offset[c] + 2]
             /\ i' = [i EXCEPT ![c] = i[c] + 1]
             /\ pc' = pc
        ELSE /\ pc' = [pc EXCEPT ![c] = "threw"]
             /\ UNCHANGED <<view, written, offset, i>>
  /\ UNCHANGED <<buffer, numOfChan, length, channels, pos, hstep, result>>
  /\ UNCHANGED appVars

EndFrame_NoAdvance(c) ==
  /\ pc[c] = "for"
  /\ ~ForCond(i[c], numOfChan[c])
  /\ pc' = [pc EXCEPT ![c] = "while"]
  /\ UNCHANGED <<buffer, numOfChan, length, view, channels, i, sample, offset,
                 pos, hstep, written, result>>
  /\ UNCHANGED appVars

EndFrame_SharedPos(c) ==
  /\ pc[c] = "for"
  /\ ~ForCond(i[c], numOfChan[c])
  /\ pos' = [d \in Calls |-> pos[c] + 1]
  /\ pc' = [pc EXCEPT ![c] = "while"]
  /\ UNCHANGED <<buffer, numOfChan, length, view, channels, i, sample, offset,
                 hstep, written, result>>
  /\ UNCHANGED appVars

(* line 73 false, line 79 pos++ *)
EndFrame(c) ==
  /\ pc[c] = "for"
  /\ ~ForCond(i[c], numOfChan[c])
  /\ pos' = [pos EXCEPT ![c] = pos[c] + 1]
  /\ pc' = [pc EXCEPT ![c] = "while"]
  /\ UNCHANGED <<buffer, numOfChan, length, view, channels, i, sample, offset,
                 hstep, written, result>>
  /\ UNCHANGED appVars

(* line 72 false, line 82 *)
Return(c) ==
  /\ pc[c] = "while"
  /\ ~WhileCond(pos[c], buffer[c])
  /\ result' = [result EXCEPT ![c] = [bytes |-> view[c], type |-> "audio/wav"]]
  /\ pc' = [pc EXCEPT ![c] = "returned"]
  /\ UNCHANGED <<buffer, numOfChan, length, view, channels, i, sample, offset,
                 pos, hstep, written>>
  /\ UNCHANGED appVars

Next ==
  \E c \in Calls :
    \/ Call(c)
    \/ setUint32(c)
    \/ setUint16(c)
    \/ GetChannels(c)
    \/ EnterFrame(c)
    \/ InterleaveSample(c)
    \/ EndFrame(c)
    \/ Return(c)

Spec == Init /\ [][Next]_vars

(* Buffers of every length and channel count: the path of a call through   *)
(* writeWav depends on these two only, never on the sample values           *)
LiveInputs ==
  {RampBuffer(8000, n, f, 0) : n \in 0..MaxChannels, f \in 0..MaxFrames}
  \cup {ExampleBuffer}

InitLive ==
  /\ \E b \in LiveInputs : buffer = [c \in Calls |-> b]
  /\ pc = [c \in Calls |-> "idle"]
  /\ numOfChan = [c \in Calls |-> 0]
  /\ length = [c \in Calls |-> 0]
  /\ view = [c \in Calls |-> <<>>]
  /\ channels = [c \in Calls |-> <<>>]
  /\ i = [c \in Calls |-> 0]
  /\ sample = [c \in Calls |-> 0]
  /\ offset = [c \in Calls |-> 0]
  /\ pos = [c \in Calls |-> 0]
  /\ hstep = [c \in Calls |-> 1]
  /\ written = [c \in Calls |-> {}]
  /\ result = [c \in Calls |-> NoBlob]
  /\ env = [audioContext |-> TRUE]
  /\ AppStart

(* a call that has started keeps running: nothing in writeWav waits *)
FairSpec == InitLive /\ [][Next]_vars /\ WF_vars(Next)

(* Two calls in a host that runs them in parallel, interleaved at any step *)
ParInputs ==
  {RampBuffer(8000, 1, HeaderLen + 1, 0), RampBuffer(44100, MaxChannels, MaxFrames, 3),
   ExampleBuffer}

InitPar ==
  /\ buffer \in [Calls -> ParInputs]
  /\ pc = [c \in Calls |-> "idle"]
  /\ numOfChan = [c \in Calls |-> 0]
  /\ length = [c \in Calls |-> 0]
  /\ view = [c \in Calls |-> <<>>]
  /\ channels = [c \in Calls |-> <<>>]
  /\ i = [c \in Calls |-> 0]
  /\ sample = [c \in Calls |-> 0]
  /\ offset = [c \in Calls |-> 0]
  /\ pos = [c \in Calls |-> 0]
  /\ hstep = [c \in Calls |-> 1]
  /\ written = [c \in Calls |-> {}]
  /\ result = [c \in Calls |-> NoBlob]
  /\ env = [audioContext |-> TRUE]
  /\ AppStart

NextPar ==
  \E c \in Calls :
    \/ ParallelCall(c)
    \/ setUint32(c)
    \/ setUint16(c)
    \/ GetChannels(c)
    \/ EnterFrame(c)
    \/ InterleaveSample(c)
    \/ EndFrame(c)
    \/ Return(c)

SpecPar == InitPar /\ [][NextPar]_vars

----------------------------------------------------------------------------
(* The App component: handlers and the continuations of their awaits.       *)
(* JavaScript runs each of them to completion, so none runs while a         *)
(* writeWav call is on the stack.                                           *)

Busy == \E r \in Runs : runs[r].pc = "writeWav"

(* the slot of the next invocation *)
FreeRun == CHOOSE r \in Runs : runs[r].pc = "idle" /\ \A q \in Runs : runs[q].pc = "idle" => r <= q

(* lines 247-251 *)
resetResultStates ==
  /\ transcription' = ClearedTranscription
  /\ correction' = ClearedTextProcess
  /\ rewrite' = ClearedTextProcess

(* lines 227-232 *)
stopMediaTracks ==
  IF refs.stream # 0
  THEN /\ streams' = [streams EXCEPT ![refs.stream] = "stopped"]
       /\ refs' = [refs EXCEPT !.stream = 0]
  ELSE UNCHANGED <<streams, refs>>

(* lines 460-466 *)
reset ==
  /\ recordedBlob' = NullBlob
  /\ fileData' = NoFile
  /\ resetResultStates
  /\ statusMessage' = ""
  /\ stopMediaTracks

(* lines 234-245; the file input is part of the FILE tab *)
handleFileChange(file) ==
  /\ ~Busy
  /\ activeTab = "FILE"
  /\ fileData' = [file |-> file,
                  type |-> IF StartsWithVideo(file.type) THEN "video" ELSE "audio"]
  /\ resetResultStates
  /\ UNCHANGED <<activeTab, recordingStatus, recordedBlob, statusMessage>>
  /\ UNCHANGED <<env, reqVars, recVars, wavVars>>

(* lines 545-548: a click on a tab *)
TabChange(id) ==
  /\ ~Busy
  /\ activeTab' = id
  /\ reset
  /\ UNCHANGED <<recordingStatus, starts, recorders, timers>>
  /\ UNCHANGED <<env, reqVars, wavVars>>

(* lines 606-610 and 697: the buttons that call reset *)
ResetClick ==
  /\ ~Busy
  /\ \/ activeTab = "FILE" /\ fileData.file # NullBlob
     \/ activeTab # "FILE" /\ recordedBlob # NullBlob
  /\ reset
  /\ UNCHANGED <<activeTab, recordingStatus, starts, recorders, timers>>
  /\ UNCHANGED <<env, reqVars, wavVars>>

(* line 412 *)
FallbackMime_Wav(blob) == "audio/wav"

FallbackMime(blob) == IF blob.type # "" THEN blob.type ELSE "video/webm"

(* lines 415-419 *)
AudioMime(tab, blob) ==
  IF tab = "FILE"
  THEN (IF blob.type # "" THEN blob.type ELSE getMimeType("mp3"))
  ELSE "audio/webm"

(* lines 709-713: the transcribe button is enabled *)
TranscribeEnabled ==
  ~((fileData.file = NullBlob /\ recordedBlob = NullBlob) \/ transcription.isProcessing)

(* lines 379-405 and 414-423, up to the first await *)
handleTranscribe ==
  /\ ~Busy
  /\ TranscribeEnabled
  /\ \E r \in Runs : runs[r].pc = "idle"
  /\ LET blobToProcess == IF activeTab = "FILE" THEN fileData.file ELSE recordedBlob
         isVideo == IF activeTab = "FILE" THEN fileData.type = "video"
                                          ELSE activeTab = "SYSTEM"
     IN
     IF blobToProcess = NullBlob
     THEN UNCHANGED <<transcription, correction, rewrite, statusMessage, runs, sinceClear>>
     ELSE /\ correction' = ClearedTextProcess
          /\ rewrite' = ClearedTextProcess
          /\ transcription' = [text |-> "", isProcessing |-> TRUE, error |-> Null]
          /\ sinceClear' = [correction |-> TRUE, rewrite |-> TRUE]
          /\ IF isVideo
             THEN /\ statusMessage' = "extracting"
                  /\ runs' = [runs EXCEPT ![FreeRun] =
                        [IdleRun EXCEPT !.pc = "delay", !.blobToProcess = blobToProcess,
                                        !.isVideo = TRUE, !.finalBlob = blobToProcess]]
             ELSE /\ statusMessage' = "sending"
                  /\ runs' = [runs EXCEPT ![FreeRun] =
                        [IdleRun EXCEPT !.pc = "base64", !.blobToProcess = blobToProcess,
                                        !.finalBlob = blobToProcess,
                                        !.mimeType = AudioMime(activeTab, blobToProcess)]]
  /\ UNCHANGED <<activeTab, fileData, recordingStatus, recordedBlob>>
  /\ UNCHANGED <<env, corrPending, rewritePending, recVars, wavVars>>

(* line 405 resolves, lines 408 and 101: extractAudioFromVideo is called    *)
(* and awaits videoBlob.arrayBuffer()                                       *)
TimeoutFires(r) ==
  /\ ~Busy
  /\ runs[r].pc = "delay"
  /\ runs' = [runs EXCEPT ![r].pc = "arrayBuffer",
                          ![r].extract = [NoPromise EXCEPT !.state = "pending"]]
  /\ UNCHANGED <<env, uiVars, corrPending, rewritePending, sinceClear, recVars, wavVars>>

(* lines 407-413 and 422-423: handleTranscribe after extractAudioFromVideo  *)
(* settled with `promise`                                                   *)
AfterExtract(run, promise) ==
  IF promise.state = "resolved"
  THEN [run EXCEPT !.extract = promise, !.finalBlob = promise.value,
                   !.mimeType = "audio/wav", !.pc = "base64"]
  ELSE [run EXCEPT !.extract = promise,
                   !.mimeType = FallbackMime(run.blobToProcess), !.pc = "base64"]

Rejected(e) == [state |-> "rejected", value |-> NullBlob, error |-> e]

Resolved(blob) == [state |-> "resolved", value |-> blob, error |-> ""]

(* lines 114-116: the catch block, given the error it caught *)
DecodeFailureOutcome_Rethrow(e) == Rejected(e)

DecodeFailureOutcome(e) == Rejected(ExtractErrorMessage)

(* line 101 settles; lines 106 and 109: the AudioContext is constructed     *)
(* outside the try block, then decodeAudioData is awaited                   *)
ArrayBufferSettles(r, ok) ==
  /\ ~Busy
  /\ runs[r].pc = "arrayBuffer"
  /\ IF ok /\ env.audioContext
     THEN /\ runs' = [runs EXCEPT ![r].pc = "decode", ![r].context = "running"]
          /\ UNCHANGED statusMessage
     ELSE /\ runs' = [runs EXCEPT ![r] =
                IF ok
                THEN AfterExtract([runs[r] EXCEPT !.context = "unavailable"],
                                  Rejected("TypeError: not a constructor"))
                ELSE AfterExtract(runs[r], Rejected("NotReadableError"))]
          /\ statusMessage' = "sending"
  /\ UNCHANGED <<activeTab, fileData, transcription, correction, rewrite,
                 recordingStatus, recordedBlob>>
  /\ UNCHANGED <<env, corrPending, rewritePending, sinceClear, recVars, wavVars>>

(* line 109 settles: with an AudioBuffer, and line 112 calls writeWav, or   *)
(* with an error, and lines 114-118 run                                     *)
DecodeSettles(r, ok) ==
  /\ ~Busy
  /\ runs[r].pc = "decode"
  /\ IF ok
     THEN /\ \E b \in DecodedBuffers : buffer' = [buffer EXCEPT ![1] = b]
          /\ runs' = [runs EXCEPT ![r].pc = "writeWav", ![r].decoded = "ok"]
          /\ UNCHANGED statusMessage
     ELSE /\ runs' = [runs EXCEPT ![r] =
                AfterExtract([runs[r] EXCEPT !.decoded = "failed", !.context = "closed"],
                             DecodeFailureOutcome("EncodingError"))]
          /\ statusMessage' = "sending"
          /\ UNCHANGED buffer
  /\ UNCHANGED <<activeTab, fileData, transcription, correction, rewrite,
                 recordingStatus, recordedBlob>>
  /\ UNCHANGED <<env, corrPending, rewritePending, sinceClear, recVars>>
  /\ UNCHANGED <<pc, numOfChan, length, view, channels, i, sample, offset,
                 pos, hstep, written, result>>

(* line 112: the call of writeWav *)
ExtractCallsWriteWav ==
  /\ Busy
  /\ Begin(1)

(* lines 112-113 and 117-118: writeWav returned (or threw, lines 114-116),  *)
(* the context is closed and the promise settles                            *)
WriteWavReturns(r) ==
  /\ runs[r].pc = "writeWav"
  /\ pc[1] \in {"returned", "threw"}
  /\ runs' = [runs EXCEPT ![r] =
        AfterExtract([runs[r] EXCEPT !.encoded = TRUE, !.context = "closed"],
          IF pc[1] = "returned"
          THEN Resolved([src |-> "wav", type |-> result[1].type, bytes |-> result[1].bytes])
          ELSE DecodeFailureOutcome("RangeError"))]
  /\ statusMessage' = "sending"
  /\ buffer' = [buffer EXCEPT ![1] = NoBuffer]
  /\ pc' = [pc EXCEPT ![1] = "idle"]
  /\ numOfChan' = [numOfChan EXCEPT ![1] = 0]
  /\ length' = [length EXCEPT ![1] = 0]
  /\ view' = [view EXCEPT ![1] = <<>>]
  /\ channels' = [channels EXCEPT ![1] = <<>>]
  /\ i' = [i EXCEPT ![1] = 0]
  /\ sample' = [sample EXCEPT ![1] = 0]
  /\ offset' = [offset EXCEPT ![1] = 0]
  /\ pos' = [pos EXCEPT ![1] = 0]
  /\ hstep' = [hstep EXCEPT ![1] = 1]
  /\ written' = [written EXCEPT ![1] = {}]
  /\ result' = [result EXCEPT ![1] = NoBlob]
  /\ UNCHANGED <<activeTab, fileData, transcription, correction, rewrite,
                 recordingStatus, recordedBlob>>
  /\ UNCHANGED <<env, corrPending, rewritePending, sinceClear, recVars>>

(* lines 427-435: the catch and finally blocks of handleTranscribe *)
RunFails_StillProcessing(r, message) ==
  /\ transcription' = [text |-> "", isProcessing |-> TRUE, error |-> message]
  /\ statusMessage' = ""
  /\ runs' = [runs EXCEPT ![r] = IdleRun]

RunFails(r, message) ==
  /\ transcription' = [text |-> "", isProcessing |-> FALSE, error |-> message]
  /\ statusMessage' = ""
  /\ runs' = [runs EXCEPT ![r] = IdleRun]

(* line 423 settles; line 425 calls transcribeMedia *)
Base64Settles(r, ok) ==
  /\ ~Busy
  /\ runs[r].pc = "base64"
  /\ IF ok
     THEN /\ runs' = [runs EXCEPT ![r].pc = "transcribe"]
          /\ UNCHANGED <<transcription, statusMessage>>
     ELSE RunFails(r, "transcription failed")
  /\ UNCHANGED <<activeTab, fileData, correction, rewrite, recordingStatus, recordedBlob>>
  /\ UNCHANGED <<env, corrPending, rewritePending, sinceClear, recVars, wavVars>>

(* line 425 settles; lines 426-435 *)
TranscribeSettles(r, ok) ==
  /\ ~Busy
  /\ runs[r].pc = "transcribe"
  /\ IF ok
     THEN /\ transcription' = [text |-> "transcript", isProcessing |-> FALSE, error |-> Null]
          /\ statusMessage' = ""
          /\ runs' = [runs EXCEPT ![r] = IdleRun]
     ELSE RunFails(r, "media transcription failed")
  /\ UNCHANGED <<activeTab, fileData, correction, rewrite, recordingStatus, recordedBlob>>
  /\ UNCHANGED <<env, corrPending, rewritePending, sinceClear, recVars, wavVars>>

(* TranscriptionResult lines 38-69: the result panel shows its tabs *)
ResultShown ==
  ~transcription.isProcessing /\ transcription.error = Null /\ transcription.text # ""

Falsy(text) == text \in {Null, ""}

(* lines 438-442, behind the buttons of TranscriptionResult lines 159-178 *)
handleCorrection ==
  /\ ~Busy
  /\ ResultShown
  /\ ~correction.isProcessing /\ (Falsy(correction.text) \/ correction.error # Null)
  /\ corrPending < MaxPending
  /\ correction' = [correction EXCEPT !.isProcessing = TRUE, !.error = Null]
  /\ corrPending' = corrPending + 1
  /\ sinceClear' = [sinceClear EXCEPT !.correction = FALSE]
  /\ UNCHANGED <<activeTab, fileData, transcription, rewrite, recordingStatus,
                 recordedBlob, statusMessage>>
  /\ UNCHANGED <<env, runs, rewritePending, recVars, wavVars>>

(* lines 442-446: correctText settles *)
CorrectionSettles(ok, text) ==
  /\ ~Busy
  /\ corrPending > 0
  /\ corrPending' = corrPending - 1
  /\ correction' = IF ok THEN [text |-> text, isProcessing |-> FALSE, error |-> Null]
                         ELSE [text |-> Null, isProcessing |-> FALSE,
                               error |-> "text correction failed"]
  /\ UNCHANGED <<activeTab, fileData, transcription, rewrite, recordingStatus,
                 recordedBlob, statusMessage>>
  /\ UNCHANGED <<env, runs, rewritePending, sinceClear, recVars, wavVars>>

(* lines 449-453, behind the buttons of TranscriptionResult lines 191-253 *)
handleRewrite ==
  /\ ~Busy
  /\ ResultShown
  /\ ~rewrite.isProcessing
  /\ rewritePending < MaxPending
  /\ rewrite' = [rewrite EXCEPT !.isProcessing = TRUE, !.error = Null]
  /\ rewritePending' = rewritePending + 1
  /\ sinceClear' = [sinceClear EXCEPT !.rewrite = FALSE]
  /\ UNCHANGED <<activeTab, fileData, transcription, correction, recordingStatus,
                 recordedBlob, statusMessage>>
  /\ UNCHANGED <<env, runs, corrPending, recVars, wavVars>>

(* lines 453-457: rewriteText settles *)
RewriteSettles(ok, text) ==
  /\ ~Busy
  /\ rewritePending > 0
  /\ rewritePending' = rewritePending - 1
  /\ rewrite' = IF ok THEN [text |-> text, isProcessing |-> FALSE, error |-> Null]
                      ELSE [text |-> Null, isProcessing |-> FALSE,
                            error |-> "text rewriting failed"]
  /\ UNCHANGED <<activeTab, fileData, transcription, correction, recordingStatus,
                 recordedBlob, statusMessage>>
  /\ UNCHANGED <<env, runs, corrPending, sinceClear, recVars, wavVars>>

----------------------------------------------------------------------------
(* Recording *)

FreeStart ==
  CHOOSE s \in Starts : starts[s].pc = "idle" /\ \A q \in Starts : starts[q].pc = "idle" => s <= q

(* lines 282-288 and 293: the MIME type startRecording chooses *)
RecordingMimes(source) ==
  IF source = "system"
  THEN {"video/mp4", "video/webm;codecs=vp9", "video/webm"}
  ELSE {"audio/webm;codecs=opus"}

(* lines 659-666 and 253-264 / 291: the start button, startRecording up to  *)
(* its await of getDisplayMedia or getUserMedia                             *)
startRecording ==
  /\ ~Busy
  /\ activeTab # "FILE"
  /\ recordingStatus = "idle" /\ recordedBlob = NullBlob
  /\ \E s \in Starts : starts[s].pc = "idle"
  /\ resetResultStates
  /\ starts' = [starts EXCEPT ![FreeStart] =
        [pc |-> "permission",
         source |-> IF activeTab = "MICROPHONE" THEN "mic" ELSE "system",
         transcription |-> transcription]]
  /\ UNCHANGED <<activeTab, fileData, recordingStatus, recordedBlob, statusMessage>>
  /\ UNCHANGED <<env, reqVars, streams, recorders, timers, refs, wavVars>>

(* lines 329-342: the catch block; `transcription` is the value the         *)
(* invocation closed over                                                   *)
StartFails(s) ==
  /\ transcription' = [starts[s].transcription EXCEPT !.error = "cannot start recording"]
  /\ starts' = [starts EXCEPT ![s].pc = "done"]

(* lines 266-327: the stream was granted; it is recorded, unless a shared   *)
(* display has no audio track (lines 267-270) or the MediaRecorder          *)
(* constructor rejects the MIME type (line 299)                             *)
PermissionGranted(s, outcome, mime) ==
  /\ ~Busy
  /\ starts[s].pc = "permission"
  /\ mime \in RecordingMimes(starts[s].source)
  /\ CASE outcome = "recorded" ->
            /\ streams' = [streams EXCEPT ![s] = "live"]
            /\ recorders' = [recorders EXCEPT ![s] = "recording"]
            /\ timers' = [timers EXCEPT ![s] = "running"]
            /\ refs' = [stream |-> s, mediaRecorder |-> s, timer |-> s,
                        recordingMimeType |-> mime]
            /\ recordingStatus' = "recording"
            /\ starts' = [starts EXCEPT ![s].pc = "done"]
            /\ UNCHANGED transcription
       [] outcome = "noAudioTrack" ->
            /\ starts[s].source = "system"
            /\ streams' = [streams EXCEPT ![s] = "stopped"]
            /\ StartFails(s)
            /\ UNCHANGED <<recorders, timers, refs, recordingStatus>>
       [] outcome = "recorderThrows" ->
            /\ streams' = [streams EXCEPT ![s] = "live"]
            /\ refs' = [refs EXCEPT !.stream = s, !.recordingMimeType = mime]
            /\ StartFails(s)
            /\ UNCHANGED <<recorders, timers, recordingStatus>>
  /\ UNCHANGED <<activeTab, fileData, correction, rewrite, recordedBlob, statusMessage>>
  /\ UNCHANGED <<env, reqVars, wavVars>>

(* lines 261 / 291 reject: the user cancelled or the permission was denied *)
PermissionDenied(s) ==
  /\ ~Busy
  /\ starts[s].pc = "permission"
  /\ StartFails(s)
  /\ UNCHANGED <<activeTab, fileData, correction, rewrite, recordingStatus,
                 recordedBlob, statusMessage>>
  /\ UNCHANGED <<env, reqVars, streams, recorders, timers, refs, wavVars>>

(* lines 345-349: MediaRecorder.stop() makes the recorder inactive and      *)
(* queues its stop event                                                    *)
stopRecording ==
  IF refs.mediaRecorder # 0 /\ recorders[refs.mediaRecorder] = "recording"
  THEN recorders' = [recorders EXCEPT ![refs.mediaRecorder] = "stopping"]
  ELSE UNCHANGED recorders

(* lines 668-676: the stop button *)
StopClick ==
  /\ ~Busy
  /\ activeTab # "FILE"
  /\ recordingStatus = "recording"
  /\ stopRecording
  /\ UNCHANGED <<env, uiVars, reqVars, starts, streams, timers, refs, wavVars>>

(* lines 274-279: the user ends the screen sharing, the tracks of the       *)
(* shared stream end and the video track's onended handler runs             *)
VideoTrackEnded(s) ==
  /\ ~Busy
  /\ starts[s].source = "system"
  /\ streams[s] = "live"
  /\ streams' = [streams EXCEPT ![s] = "ended"]
  /\ stopRecording
  /\ UNCHANGED <<env, uiVars, reqVars, starts, timers, refs, wavVars>>

(* a MediaRecorder stops by itself once every track of its stream has ended *)
RecorderStopsWithTracks(s) ==
  /\ ~Busy
  /\ recorders[s] = "recording"
  /\ streams[s] \in {"stopped", "ended"}
  /\ recorders' = [recorders EXCEPT ![s] = "stopping"]
  /\ UNCHANGED <<env, uiVars, reqVars, starts, streams, timers, refs, wavVars>>

(* lines 310-320: mediaRecorder.onstop *)
RecorderOnStop(s) ==
  /\ ~Busy
  /\ recorders[s] = "stopping"
  /\ recorders' = [recorders EXCEPT ![s] = "inactive"]
  /\ recordedBlob' = MediaBlob(starts[s].source, refs.recordingMimeType)
  /\ stopMediaTracks
  /\ timers' = IF refs.timer # 0 THEN [timers EXCEPT ![refs.timer] = "cleared"] ELSE timers
  /\ recordingStatus' = "idle"
  /\ UNCHANGED <<activeTab, fileData, transcription, correction, rewrite, statusMessage>>
  /\ UNCHANGED <<env, reqVars, starts, wavVars>>

----------------------------------------------------------------------------
(* The App in a browser: every event and every continuation *)

InitApp ==
  /\ buffer = [c \in Calls |-> NoBuffer]
  /\ pc = [c \in Calls |-> "idle"]
  /\ numOfChan = [c \in Calls |-> 0]
  /\ length = [c \in Calls |-> 0]
  /\ view = [c \in Calls |-> <<>>]
  /\ channels = [c \in Calls |-> <<>>]
  /\ i = [c \in Calls |-> 0]
  /\ sample = [c \in Calls |-> 0]
  /\ offset = [c \in Calls |-> 0]
  /\ pos = [c \in Calls |-> 0]
  /\ hstep = [c \in Calls |-> 1]
  /\ written = [c \in Calls |-> {}]
  /\ result = [c \in Calls |-> NoBlob]
  /\ env \in [audioContext : BOOLEAN]
  /\ AppStart

NextApp ==
  \/ \E file \in Files : handleFileChange(file)
  \/ \E id \in {"FILE", "MICROPHONE", "SYSTEM"} : TabChange(id)
  \/ ResetClick
  \/ handleTranscribe
  \/ \E r \in Runs : TimeoutFires(r)
  \/ \E r \in Runs : \E ok \in BOOLEAN : ArrayBufferSettles(r, ok)
  \/ \E r \in Runs : \E ok \in BOOLEAN : DecodeSettles(r, ok)
  \/ ExtractCallsWriteWav
  \/ \E c \in Calls : setUint32(c)
  \/ \E c \in Calls : setUint16(c)
  \/ \E c \in Calls : GetChannels(c)
  \/ \E c \in Calls : EnterFrame(c)
  \/ \E c \in Calls : InterleaveSample(c)
  \/ \E c \in Calls : EndFrame(c)
  \/ \E c \in Calls : Return(c)
  \/ \E r \in Runs : WriteWavReturns(r)
  \/ \E r \in Runs : \E ok \in BOOLEAN : Base64Settles(r, ok)
  \/ \E r \in Runs : \E ok \in BOOLEAN : TranscribeSettles(r, ok)
  \/ handleCorrection
  \/ \E ok \in BOOLEAN : \E text \in {"corrected", ""} : CorrectionSettles(ok, text)
  \/ handleRewrite
  \/ \E ok \in BOOLEAN : \E text \in {"rewritten", ""} : RewriteSettles(ok, text)
  \/ startRecording
  \/ \E s \in Starts : \E outcome \in {"recorded", "noAudioTrack", "recorderThrows"} :
        \E mime \in RecordingMimes(starts[s].source) : PermissionGranted(s, outcome, mime)
  \/ \E s \in Starts : PermissionDenied(s)
  \/ StopClick
  \/ \E s \in Starts : VideoTrackEnded(s)
  \/ \E s \in Starts : RecorderStopsWithTracks(s)
  \/ \E s \in Starts : RecorderOnStop(s)

SpecApp == InitApp /\ [][NextApp]_vars

(* A user who picks media files and transcribes them; the video files go   *)
(* through extractAudioFromVideo and writeWav                                *)
NextExtract ==
  \/ \E file \in Files : handleFileChange(file)
  \/ handleTranscribe
  \/ \E r \in Runs : TimeoutFires(r)
  \/ \E r \in Runs : \E ok \in BOOLEAN : ArrayBufferSettles(r, ok)
  \/ \E r \in Runs : \E ok \in BOOLEAN : DecodeSettles(r, ok)
  \/ ExtractCallsWriteWav
  \/ \E c \in Calls : setUint32(c)
  \/ \E c \in Calls : setUint16(c)
  \/ \E c \in Calls : GetChannels(c)
  \/ \E c \in Calls : EnterFrame(c)
  \/ \E c \in Calls : InterleaveSample(c)
  \/ \E c \in Calls : EndFrame(c)
  \/ \E c \in Calls : Return(c)
  \/ \E r \in Runs : WriteWavReturns(r)
  \/ \E r \in Runs : \E ok \in BOOLEAN : Base64Settles(r, ok)
  \/ \E r \in Runs : \E ok \in BOOLEAN : TranscribeSettles(r, ok)

SpecExtract == InitApp /\ [][NextExtract]_vars

(* Every awaited operation settles and its continuation is run: the timer *)
(* of line 405, arrayBuffer(), decodeAudioData(), fileToBase64() and        *)
(* transcribeMedia(); a writeWav call on the stack runs to its end.         *)
WriteWavStep ==
  \/ ExtractCallsWriteWav
  \/ \E c \in Calls : setUint32(c) \/ setUint16(c) \/ GetChannels(c)
  \/ \E c \in Calls : EnterFrame(c) \/ InterleaveSample(c) \/ EndFrame(c) \/ Return(c)
  \/ \E r \in Runs : WriteWavReturns(r)

RunStep(r) ==
  \/ TimeoutFires(r)
  \/ \E ok \in BOOLEAN : ArrayBufferSettles(r, ok)
  \/ \E ok \in BOOLEAN : DecodeSettles(r, ok)
  \/ \E ok \in BOOLEAN : Base64Settles(r, ok)
  \/ \E ok \in BOOLEAN : TranscribeSettles(r, ok)

(* a continuation waits while a writeWav call of another run is on the     *)
(* stack and runs once the stack is empty                                   *)
FairExtract ==
  /\ SpecExtract
  /\ WF_vars(WriteWavStep)
  /\ \A r \in Runs : SF_vars(RunStep(r))

(* A user who works with audio files: selection, tabs, reset, transcription *)
(* and the correction and rewriting of its result                          *)
NextResults ==
  \/ \E file \in {f \in Files : ~StartsWithVideo(f.type)} : handleFileChange(file)
  \/ \E id \in {"FILE", "MICROPHONE", "SYSTEM"} : TabChange(id)
  \/ ResetClick
  \/ handleTranscribe
  \/ \E r \in Runs : \E ok \in BOOLEAN : Base64Settles(r, ok)
  \/ \E r \in Runs : \E ok \in BOOLEAN : TranscribeSettles(r, ok)
  \/ handleCorrection
  \/ \E ok \in BOOLEAN : \E text \in {"corrected", ""} : CorrectionSettles(ok, text)
  \/ handleRewrite
  \/ \E ok \in BOOLEAN : \E text \in {"rewritten", ""} : RewriteSettles(ok, text)

SpecResults == InitApp /\ [][NextResults]_vars

(* A user who records from the microphone or the screen and transcribes the *)
(* recording                                                                *)
NextRecord ==
  \/ \E id \in {"FILE", "MICROPHONE", "SYSTEM"} : TabChange(id)
  \/ ResetClick
  \/ startRecording
  \/ \E s \in Starts : \E outcome \in {"recorded", "noAudioTrack", "recorderThrows"} :
        \E mime \in RecordingMimes(starts[s].source) : PermissionGranted(s, outcome, mime)
  \/ \E s \in Starts : PermissionDenied(s)
  \/ StopClick
  \/ \E s \in Starts : VideoTrackEnded(s)
  \/ \E s \in Starts : RecorderStopsWithTracks(s)
  \/ \E s \in Starts : RecorderOnStop(s)
  \/ handleTranscribe
  \/ \E r \in Runs : TimeoutFires(r)
  \/ \E r \in Runs : \E ok \in BOOLEAN : ArrayBufferSettles(r, ok)
  \/ \E r \in Runs : \E ok \in BOOLEAN : DecodeSettles(r, ok)
  \/ WriteWavStep
  \/ \E r \in Runs : \E ok \in BOOLEAN : Base64Settles(r, ok)
  \/ \E r \in Runs : \E ok \in BOOLEAN : TranscribeSettles(r, ok)

SpecRecord == InitApp /\ [][NextRecord]_vars

TypeOK ==
  /\ \A c \in Calls : pc[c] \in {"idle", "header", "channels", "while", "for", "returned", "threw"}
  /\ \A c \in Calls : \A k \in 1..Len(view[c]) : view[c][k] \in 0..255

----------------------------------------------------------------------------
(* Reading the output back *)

Returned(c) == pc[c] = "returned"

Frames(c) == buffer[c].length
Chans(c) == buffer[c].numberOfChannels

(* the float sample of channel ch (from 0) at frame p (from 0) *)
In(c, ch, p) == buffer[c].channelData[ch + 1][p + 1]

GetUint16(bytes, at) == bytes[at + 1] + 256 * bytes[at + 2]

GetInt16(bytes, at) ==
  LET u == GetUint16(bytes, at) IN IF u >= 32768 THEN u - 65536 ELSE u

GetUint32(bytes, at) ==
  bytes[at + 1] + 256 * bytes[at + 2] + 65536 * bytes[at + 3] + 16777216 * bytes[at + 4]

Bytes(bytes, at, n) == [k \in 1..n |-> bytes[at + k]]

(* the conversion of section 4.1, steps 2 and 3, of a sample s = num / Den *)
TowardZero(a, b) == IF a < 0 THEN -((-a) \div b) ELSE a \div b

Clamped(s) == IF s > One THEN One ELSE IF s < -One THEN -One ELSE s

Enc(s) ==
  IF 2 * Clamped(s) + One < 0
  THEN TowardZero(Clamped(s) * 32768, Den)
  ELSE TowardZero(Clamped(s) * 32767, Den)

(* the sample converted by the last run of lines 74-77 *)
JustWrote(c) == pc[c] = "for" /\ i[c] > 0
LastRead(c) == channels[c][i[c]][pos[c] + 1]
LastWritten(c) == GetInt16(view[c], HeaderLen + offset[c] - 2)

----------------------------------------------------------------------------
(* C1: in the returned blob the signed 16-bit little-endian value at byte   *)
(* offset 44 + 2*(p*C + c) is the converted value of channels[c][p], for    *)
(* every frame p and channel c; for channel 0 = [0.0, 0.5] and channel 1 =  *)
(* [-0.5, 0.0] the first four samples are enc(0.0), enc(-0.5), enc(0.5),    *)
(* enc(0.0).                                                                *)
C1_Interleaved ==
  \A c \in Calls : Returned(c) =>
    /\ \A p \in 0..(Frames(c) - 1) : \A ch \in 0..(Chans(c) - 1) :
          GetInt16(result[c].bytes, 44 + 2 * (p * Chans(c) + ch)) = Enc(In(c, ch, p))
    /\ buffer[c] = ExampleBuffer =>
          [k \in 1..4 |-> GetInt16(result[c].bytes, 44 + 2 * (k - 1))]
            = <<Enc(0), Enc(-Half), Enc(Half), Enc(0)>>

(* C2: the returned blob is exactly 44 + F*C*2 bytes long and has type      *)
(* audio/wav.                                                               *)
C2_Length ==
  \A c \in Calls : Returned(c) =>
    /\ Len(result[c].bytes) = 44 + Frames(c) * Chans(c) * 2
    /\ result[c].type = "audio/wav"

C2_Witness ==
  \E c \in Calls :
    Returned(c) /\ Frames(c) > HeaderLen /\ Chans(c) = 2 /\ Len(result[c].bytes) > 44

(* C3: when encode returns, the sample loop has written exactly F*C         *)
(* samples (F*C*2 data bytes) and no byte of the data region is unwritten.  *)
C3_AllWritten ==
  \A c \in Calls : Returned(c) =>
    /\ offset[c] = Frames(c) * Chans(c) * 2
    /\ \A k \in 44..(Len(result[c].bytes) - 1) : k \in written[c]

(* C4: bytes 0..43 hold the header table, little-endian, and the header     *)
(* cursor stands at each field's offset before the field is written and at  *)
(* 44 after the last one.                                                   *)
FieldOffsets == <<0, 4, 8, 12, 16, 20, 22, 24, 28, 32, 34, 36, 40>>

C4_Header ==
  \A c \in Calls :
    /\ pc[c] = "header" => pos[c] = FieldOffsets[hstep[c]]
    /\ pc[c] = "channels" => pos[c] = 44
    /\ Returned(c) =>
         LET b == result[c].bytes IN
         /\ Bytes(b, 0, 4) = <<82, 73, 70, 70>>
         /\ Bytes(b, 8, 4) = <<87, 65, 86, 69>>
         /\ Bytes(b, 12, 4) = <<102, 109, 116, 32>>
         /\ GetUint32(b, 16) = 16
         /\ GetUint16(b, 20) = 1
         /\ GetUint16(b, 22) = Chans(c)
         /\ GetUint32(b, 24) = buffer[c].sampleRate
         /\ GetUint32(b, 28) = buffer[c].sampleRate * Chans(c) * 2
         /\ GetUint16(b, 32) = Chans(c) * 2
         /\ GetUint16(b, 34) = 16
         /\ Bytes(b, 36, 4) = <<100, 97, 116, 97>>

C4_Witness ==
  \E c \in Calls :
    Returned(c) /\ Chans(c) = 2 /\ buffer[c].sampleRate = 44100
      /\ GetUint32(result[c].bytes, 28) = 176400

(* C5: ChunkSize at offset 4 is totalLength - 8 and Subchunk2Size at offset *)
(* 40 is totalLength - 44 = F*C*2.                                          *)
C5_Sizes ==
  \A c \in Calls : Returned(c) =>
    LET b == result[c].bytes IN
    /\ GetUint32(b, 4) = Len(b) - 8
    /\ GetUint32(b, 40) = Len(b) - 44
    /\ GetUint32(b, 40) = Frames(c) * Chans(c) * 2

C5_Witness ==
  \E c \in Calls :
    Returned(c) /\ Frames(c) > 0 /\ Chans(c) > 0
      /\ GetUint32(result[c].bytes, 40) > 0

(* C6: no write targets a byte outside 0..totalLength-1 (a sample write at  *)
(* 44 + offset has 44 + offset + 2 <= totalLength) and no channel array is  *)
(* read at an index outside 0..frameCount-1.                                *)
C6_InBounds ==
  \A c \in Calls :
    /\ pc[c] # "threw"
    /\ \A k \in written[c] : k \in 0..(length[c] - 1)
    /\ (pc[c] = "for" /\ i[c] < numOfChan[c]) =>
         /\ pos[c] \in 0..(Frames(c) - 1)
         /\ 44 + offset[c] + 2 <= length[c]

C6_Witness ==
  \E c \in Calls :
    /\ pc[c] = "for" /\ i[c] < numOfChan[c]
    /\ pos[c] = Frames(c) - 1
    /\ \E k \in written[c] : k >= 44

(* C7: a sample of exactly 1.0 at frame p, channel c is stored as 32767 and *)
(* a sample of exactly -1.0 as -32768 at its interleaved data position.     *)
C7_FullScale ==
  \A c \in Calls : Returned(c) =>
    \A p \in 0..(Frames(c) - 1) : \A ch \in 0..(Chans(c) - 1) :
      LET v == GetInt16(result[c].bytes, 44 + 2 * (p * Chans(c) + ch)) IN
      /\ In(c, ch, p) = One => v = 32767
      /\ In(c, ch, p) = -One => v = -32768

(* C8: every value written to the data region is, for the sample s read for *)
(* that write and s' its clamp to [-1, 1], s'*32768 truncated toward zero   *)
(* when 0.5 + s' < 0 and s'*32767 truncated toward zero otherwise, and lies *)
(* in [-32768, 32767].                                                      *)
C8_Conversion ==
  \A c \in Calls : JustWrote(c) =>
    /\ sample[c] = Enc(LastRead(c))
    /\ LastWritten(c) = Enc(LastRead(c))
    /\ sample[c] \in -32768..32767

C8_Witness ==
  \E c \in Calls :
    /\ JustWrote(c)
    /\ LastRead(c) < 0 /\ 2 * LastRead(c) + One >= 0
    /\ LastWritten(c) = TowardZero(LastRead(c) * 32767, Den)
    /\ LastWritten(c) # TowardZero(LastRead(c) * 32768, Den)

(* C9 as stated: the scale is 32768 for every negative clamped sample and   *)
(* 32767 for every non-negative one.                                        *)
C9_SignScale ==
  \A c \in Calls : JustWrote(c) =>
    LET s == Clamped(LastRead(c)) IN
    LastWritten(c) = IF s < 0 THEN TowardZero(s * 32768, Den)
                              ELSE TowardZero(s * 32767, Den)

(* C9 amended: the scale is 32768 for every clamped sample below -0.5 and   *)
(* 32767 for every clamped sample at or above -0.5.                         *)
C9_BiasedScale ==
  \A c \in Calls : JustWrote(c) =>
    LET s == Clamped(LastRead(c)) IN
    /\ 2 * s < -One => LastWritten(c) * Den \in ((s * 32768)..(s * 32768 + Den - 1))
    /\ 2 * s >= -One /\ s < 0 =>
         LastWritten(c) * Den \in ((s * 32767)..(s * 32767 + Den - 1))
    /\ s >= 0 => LastWritten(c) * Den \in ((s * 32767 - Den + 1)..(s * 32767))

C9_Witness ==
  \E c \in Calls :
    /\ JustWrote(c)
    /\ 2 * Clamped(LastRead(c)) < -One
    /\ LastWritten(c) = TowardZero(Clamped(LastRead(c)) * 32768, Den)
    /\ LastWritten(c) # TowardZero(Clamped(LastRead(c)) * 32767, Den)

(* C10: replacing every sample above 1 by 1.0 and every sample below -1 by  *)
(* -1.0 leaves the output byte-identical.                                   *)
C10_ClampedSame ==
  (Returned(1) /\ Returned(2) /\ buffer[2] = Saturated(buffer[1]))
    => result[2] = result[1]

C10_Witness ==
  /\ Returned(1) /\ Returned(2)
  /\ buffer[2] = Saturated(buffer[1])
  /\ \E ch \in 0..(Chans(1) - 1) : \E p \in HeaderLen..(Frames(1) - 1) :
        In(1, ch, p) > One /\ In(2, ch, p) = One
  /\ \E k \in 45..Len(result[1].bytes) : result[1].bytes[k] # 0
  /\ result[2] = result[1]

----------------------------------------------------------------------------
(* C11: with frameCount = 0 or channelCount = 0 encode does not fail and    *)
(* returns a header-only WAV of exactly 44 bytes with Subchunk2Size = 0 and *)
(* ChunkSize = 36; for a mono buffer with frameCount = 0 every header field *)
(* is the table's with channelCount = 1.                                    *)
NoData(c) == Frames(c) = 0 \/ Chans(c) = 0

C11_HeaderOnly ==
  \A c \in Calls : NoData(c) =>
    /\ pc[c] # "threw"
    /\ Returned(c) =>
         LET b == result[c].bytes IN
         /\ Len(b) = 44
         /\ GetUint32(b, 40) = 0
         /\ GetUint32(b, 4) = 36
         /\ (Frames(c) = 0 /\ Chans(c) = 1) =>
              /\ Bytes(b, 0, 4) = <<82, 73, 70, 70>>
              /\ Bytes(b, 8, 4) = <<87, 65, 86, 69>>
              /\ Bytes(b, 12, 4) = <<102, 109, 116, 32>>
              /\ GetUint32(b, 16) = 16
              /\ GetUint16(b, 20) = 1
              /\ GetUint16(b, 22) = 1
              /\ GetUint32(b, 24) = buffer[c].sampleRate
              /\ GetUint32(b, 28) = buffer[c].sampleRate * 2
              /\ GetUint16(b, 32) = 2
              /\ GetUint16(b, 34) = 16
              /\ Bytes(b, 36, 4) = <<100, 97, 116, 97>>

C11_Witness ==
  /\ Returned(1) /\ Frames(1) = 0 /\ Chans(1) = 1 /\ Len(result[1].bytes) = 44
  /\ Returned(2) /\ result[2] = result[1]

(* C12: encode terminates and returns a blob without raising an error for   *)
(* every well-formed buffer.                                                *)
C12_Terminates ==
  /\ \A c \in Calls : <>Returned(c)
  /\ [](\A c \in Calls : pc[c] # "threw")

C12_Witness ==
  \E c \in Calls :
    Returned(c) /\ Frames(c) = MaxFrames /\ Chans(c) = MaxChannels
      /\ pos[c] = Frames(c) /\ offset[c] > 0

(* C13: when decodeAudioData rejects, extractAudioFromVideo rejects with   *)
(* the descriptive Error of line 116, never calls writeWav and never        *)
(* resolves with a WAV blob.                                                *)
C13_DecodeFailure ==
  \A r \in Runs :
    runs[r].decoded = "failed" =>
      /\ runs[r].extract.state = "rejected"
      /\ runs[r].extract.error = ExtractErrorMessage
      /\ runs[r].extract.value = NullBlob
      /\ runs[r].pc # "writeWav" /\ ~runs[r].encoded
      /\ runs[r].finalBlob.src # "wav"
      /\ runs[r].context = "closed"

C13_Witness ==
  \E r \in Runs :
    /\ runs[r].decoded = "failed"
    /\ runs[r].extract.state = "rejected"
    /\ runs[r].pc = "base64"

(* C14: on a host without AudioContext and webkitAudioContext,              *)
(* extractAudioFromVideo rejects with the same descriptive Error as on a    *)
(* decode failure.                                                          *)
C14_Unsupported ==
  \A r \in Runs :
    runs[r].context = "unavailable" =>
      /\ runs[r].extract.state = "rejected"
      /\ runs[r].extract.error = ExtractErrorMessage

(* C15: a buffer whose samples are all 0.0 encodes to a data region (bytes  *)
(* 44..totalLength-1) of zero bytes only.                                   *)
AllZero(c) ==
  \A ch \in 0..(Chans(c) - 1) : \A p \in 0..(Frames(c) - 1) : In(c, ch, p) = 0

C15_ZeroData ==
  \A c \in Calls : (Returned(c) /\ AllZero(c)) =>
    \A k \in 45..Len(result[c].bytes) : result[c].bytes[k] = 0

C15_Witness ==
  \E c \in Calls :
    /\ Returned(c) /\ AllZero(c) /\ Frames(c) > 44 /\ Chans(c) > 0
    /\ \E k \in written[c] : k >= 44
    /\ \A k \in 45..Len(result[c].bytes) : result[c].bytes[k] = 0

(* The blob a call returns when it runs alone: the header of section 4.1    *)
(* and, as the code's loop starts at frame 44, the conversions of the       *)
(* frames 44..F-1 followed by zeros.                                        *)
Le16(n) == <<n % 256, (n \div 256) % 256>>
Le32(n) == <<n % 256, (n \div 256) % 256, (n \div 65536) % 256, (n \div 16777216) % 256>>

SoloHeader(b) ==
  LET n == b.length * b.numberOfChannels * 2 IN
  <<82, 73, 70, 70>> \o Le32(36 + n) \o <<87, 65, 86, 69>> \o <<102, 109, 116, 32>>
    \o Le32(16) \o Le16(1) \o Le16(b.numberOfChannels) \o Le32(b.sampleRate)
    \o Le32(b.sampleRate * b.numberOfChannels * 2) \o Le16(b.numberOfChannels * 2)
    \o Le16(16) \o <<100, 97, 116, 97>> \o Le32(n)

SoloSample(b, k) ==
  IF k < (b.length - 44) * b.numberOfChannels
  THEN Enc(b.channelData[(k % b.numberOfChannels) + 1][44 + (k \div b.numberOfChannels) + 1])
  ELSE 0

SoloBlob(b) ==
  [bytes |->
     [j \in 1..(44 + b.length * b.numberOfChannels * 2) |->
        IF j <= 44 THEN SoloHeader(b)[j]
        ELSE Le16(SoloSample(b, (j - 45) \div 2))[((j - 45) % 2) + 1]],
   type |-> "audio/wav"]

(* under Spec, where the calls run one after the other *)
SoloBlobIsSolo == \A c \in Calls : Returned(c) => result[c] = SoloBlob(buffer[c])

(* C16: two encode calls running in parallel, interleaved at any step, each *)
(* return exactly the blob they return when run alone.                      *)
C16_Parallel ==
  \A c \in Calls :
    /\ pc[c] # "threw"
    /\ Returned(c) => result[c] = SoloBlob(buffer[c])

C16_Witness ==
  /\ Returned(1) /\ Returned(2)
  /\ buffer[1] # buffer[2]
  /\ Frames(1) > 44 /\ Frames(2) > 44
  /\ result[1] # result[2]

(* C17: repeated encode calls on identical input produce byte-identical     *)
(* output.                                                                  *)
C17_Deterministic ==
  (Returned(1) /\ Returned(2) /\ buffer[1] = buffer[2]) => result[1] = result[2]

C17_Witness ==
  /\ Returned(1) /\ Returned(2) /\ buffer[1] = buffer[2]
  /\ Frames(1) > 44 /\ Chans(1) > 0
  /\ \E k \in 45..Len(result[1].bytes) : result[1].bytes[k] # 0
  /\ result[1] = result[2]

(* C18: for a video input, the MIME type handed to transcribeMedia is       *)
(* 'audio/wav' exactly when the blob sent is the WAV blob that              *)
(* extractAudioFromVideo resolved with; when the extraction was rejected    *)
(* the original blob is sent with its own type, or 'video/webm' when it has *)
(* none, and the run goes on to the upload.                                 *)
Sending(r) == runs[r].isVideo /\ runs[r].pc \in {"base64", "transcribe"}

C18_WavMime ==
  \A r \in Runs :
    /\ Sending(r) =>
         /\ runs[r].mimeType = "audio/wav" <=> runs[r].finalBlob.src = "wav"
         /\ runs[r].finalBlob.src = "wav" <=> runs[r].extract.state = "resolved"
         /\ runs[r].extract.state = "resolved" =>
              /\ runs[r].finalBlob = runs[r].extract.value
              /\ runs[r].finalBlob.type = "audio/wav"
              /\ Len(runs[r].finalBlob.bytes) >= 44
         /\ runs[r].extract.state = "rejected" =>
              /\ runs[r].finalBlob = runs[r].blobToProcess
              /\ runs[r].mimeType = IF runs[r].blobToProcess.type = ""
                                    THEN "video/webm" ELSE runs[r].blobToProcess.type
    /\ runs[r].extract.state \in {"resolved", "rejected"} => Sending(r)

C18_Witness ==
  \E r, q \in Runs :
    /\ Sending(r) /\ runs[r].pc = "transcribe"
    /\ runs[r].extract.state = "rejected" /\ runs[r].mimeType = "video/mp4"
    /\ Sending(q) /\ runs[q].pc = "transcribe"
    /\ runs[q].extract.state = "resolved" /\ runs[q].mimeType = "audio/wav"

(* C19: from the moment handleTranscribe clears correction and rewrite      *)
(* until the next handleCorrection (resp. handleRewrite), correction.text   *)
(* (resp. rewrite.text) is null and isProcessing is false.                  *)
C19_StaysCleared ==
  /\ sinceClear.correction => correction.text = Null /\ ~correction.isProcessing
  /\ sinceClear.rewrite => rewrite.text = Null /\ ~rewrite.isProcessing

(* C20: at most one transcribeMedia request started by handleTranscribe is  *)
(* outstanding at any time.                                                 *)
C20_OneOutstanding ==
  Cardinality({r \in Runs : runs[r].pc = "transcribe"}) <= 1

(* C21: whenever transcription.text is non-empty, the media input it was    *)
(* produced from is still selected: fileData.file or recordedBlob is        *)
(* non-null.                                                                *)
C21_InputSelected ==
  transcription.text # "" => (fileData.file # NullBlob \/ recordedBlob # NullBlob)

(* C22: every handleTranscribe run that set transcription.isProcessing to   *)
(* true comes to its end, and the step that ends it sets isProcessing to    *)
(* false and statusMessage to '', with {text: result, error: null} on       *)
(* success and {text: '', error: non-empty message} on failure.             *)
RunEnds(r) == runs[r].pc # "idle" /\ runs'[r].pc = "idle"

C22_RunSettles ==
  /\ \A r \in Runs : (runs[r].pc # "idle") ~> (runs[r].pc = "idle")
  /\ [][\A r \in Runs :
          RunEnds(r) =>
            /\ ~transcription'.isProcessing
            /\ statusMessage' = ""
            /\ \/ transcription'.text # "" /\ transcription'.error = Null
               \/ transcription'.text = "" /\ transcription'.error \notin {Null, ""}]_vars

C22_Witness ==
  /\ \A r \in Runs : runs[r].pc = "idle"
  /\ transcription = [text |-> "", isProcessing |-> FALSE,
                      error |-> "media transcription failed"]
  /\ statusMessage = ""

(* C23: whenever handleTranscribe processes recordedBlob, it treats the     *)
(* blob as video if and only if the blob was captured by                    *)
(* startRecording('system').                                                *)
C23_VideoIffSystem ==
  \A r \in Runs :
    (runs[r].pc # "idle" /\ runs[r].blobToProcess.src \in {"mic", "system"}) =>
      (runs[r].isVideo <=> runs[r].blobToProcess.src = "system")

(* C24: whenever recordingStatus is 'idle' and no startRecording call is    *)
(* pending, no interval timer started by startRecording is running, no      *)
(* MediaRecorder it created is recording and no captured track is live.     *)
C24_NothingLeft ==
  (recordingStatus = "idle" /\ \A s \in Starts : starts[s].pc # "permission") =>
    \A s \in Starts :
      timers[s] # "running" /\ recorders[s] # "recording" /\ streams[s] # "live"

====
